---- MODULE Spec2Model ----
(***************************************************************************)
(* A model of the design-pattern snippets of the repository:               *)
(*   - the three Proxy objects over one person record (proxy.mjs),         *)
(*   - the Singleton Counter (singleton.mjs, known through its test),      *)
(*   - the Flyweight book registry (Flyweight README listing).             *)
(* JavaScript values are records [k, n, s]: k is the kind of the value,    *)
(* n its number (or its length, for an array), s its string.               *)
(***************************************************************************)
EXTENDS Integers, Sequences, FiniteSets

VARIABLES
    person,       \* proxy.mjs: the person object, property name -> value
    call,         \* the last operation on a proxy, with its return value, error and log line
    instance,     \* singleton.mjs: the Counter instance, NoInstance before the first
    counters,     \* the Counter objects allocated by new Counter() so far
    books,        \* Flyweight: the Map books, ISBN -> Book instance
    bookObjs,     \* the Book instances constructed so far; an instance is its place here
    bookList,     \* Flyweight: the array bookList of copies
    registryCall, \* the last createBook, addBook or new Counter() with its result
    isbnNumbers,  \* Flyweight, complete listing: the Set isbnNumbers
    observers,    \* Observer: this.observers of the observable
    observerCall, \* the last subscribe, unsubscribe or notify, with the observers it invoked
    orders,       \* Command: this.orders of the manager with placeOrder, trackOrder, cancelOrder
    commandOrders, \* Command: this.orders of the manager with execute
    orderCall     \* the last order operation, with the message each manager returned

vars ==
    <<person, call, instance, counters, books, bookObjs, bookList, registryCall,
      isbnNumbers, observers, observerCall, orders, commandOrders, orderCall>>

proxyVars == <<person, call>>

registryVars == <<instance, counters, books, bookObjs, bookList, registryCall>>

listingVars == <<isbnNumbers>>

observerVars == <<observers, observerCall>>

commandVars == <<orders, commandOrders, orderCall>>

(***************************************************************************)
(* JavaScript values                                                       *)
(***************************************************************************)
Num(n) == [k |-> "number", n |-> n, s |-> ""]
Str(s) == [k |-> "string", n |-> 0, s |-> s]
NaN == [k |-> "number", n |-> 0, s |-> "NaN"]
Undefined == [k |-> "undefined", n |-> 0, s |-> ""]
EmptyArray == [k |-> "array", n |-> 0, s |-> ""]

\* The slot of a property the object does not have.
Absent == [k |-> "absent", n |-> 0, s |-> ""]

\* typeof v
TypeOf(v) ==
    CASE v.k = "number" -> "number"
      [] v.k = "string" -> "string"
      [] v.k = "undefined" -> "undefined"
      [] v.k = "array" -> "object"

\* ToBoolean(v): 0, NaN, '' and undefined are falsy.
ToBoolean(v) ==
    CASE v.k = "number" -> v.s # "NaN" /\ v.n # 0
      [] v.k = "string" -> Len(v.s) > 0
      [] v.k = "undefined" -> FALSE
      [] v.k = "array" -> TRUE

Digit == <<"0", "1", "2", "3", "4", "5", "6", "7", "8", "9">>

RECURSIVE DecimalDigits(_)
DecimalDigits(n) ==
    IF n < 10 THEN Digit[n + 1]
    ELSE DecimalDigits(n \div 10) \o Digit[(n % 10) + 1]

\* The string a template literal `${v}` produces.
ToString(v) ==
    CASE v.k = "number" -> IF v.s = "NaN" THEN "NaN" ELSE DecimalDigits(v.n)
      [] v.k = "string" -> v.s
      [] v.k = "undefined" -> "undefined"
      [] v.k = "array" -> ""

\* v.length, for a v that is not undefined: a string's or an array's length,
\* undefined for a number.
LengthOf(v) ==
    CASE v.k = "string" -> Num(Len(v.s))
      [] v.k = "array" -> Num(v.n)
      [] OTHER -> Undefined

\* a < b for a JavaScript value a and a number b: undefined and NaN convert
\* to NaN, and every comparison with NaN is false.
LessThan(a, b) == a.k = "number" /\ a.s # "NaN" /\ a.n < b

(***************************************************************************)
(* The person record and the inputs                                        *)
(***************************************************************************)
\* Property names read through the proxies; none is defined on
\* Object.prototype.
Props == {"name", "age", "nationality", "nonExistentProperty"}

\* The values written to each property through the proxies: numbers (0 and
\* NaN among them), strings of length 0, 1 and 2, undefined and an empty array.
NameValues == {Str(""), Str("J"), Str("Jo"), Num(0), Undefined, EmptyArray}

AgeValues == {Num(43), Num(0), NaN, Str("43"), Undefined}

OtherValues == {Num(0), Str("43")}

WriteInputs ==
    ({"name"} \X NameValues) \cup ({"age"} \X AgeValues)
        \cup ({"nonExistentProperty"} \X OtherValues)

Values == NameValues \cup AgeValues \cup OtherValues

Proxies == {"personProxy", "personProxyValidation", "personProxyReflect"}

personInit ==
    [p \in Props |->
        CASE p = "name" -> Str("John Doe")
          [] p = "age" -> Num(42)
          [] p = "nationality" -> Str("American")
          [] OTHER -> Absent]

\* obj[prop]
Get(obj, prop) == IF obj[prop] = Absent THEN Undefined ELSE obj[prop]

\* Reflect.get(obj, prop)
ReflectGet(obj, prop) == IF obj[prop] # Absent THEN obj[prop] ELSE Undefined

\* obj[prop] = value
Put(obj, prop, value) == [obj EXCEPT ![prop] = value]

\* Reflect.set(obj, prop, value)
ReflectSet(obj, prop, value) == [q \in DOMAIN obj |-> IF q = prop THEN value ELSE obj[q]]

NoError == "none"
AgeError == "Sorry, you can only pass numeric values for age."
NameError == "You need to provide a valid name."
LengthTypeError == "TypeError: Cannot read properties of undefined (reading 'length')"
FalsishTypeError == "TypeError: 'set' on proxy: trap returned falsish"
MissingAdvisory == "Hmm.. this property doesn't seem to exist on the target object"
NoLog == ""

\* What a handler does: the record after it, the line it logs, the value it
\* returns and the error it throws.
Outcome(obj, log, ret, thrown) == [obj |-> obj, log |-> log, ret |-> ret, thrown |-> thrown]

(***************************************************************************)
(* The handlers                                                            *)
(***************************************************************************)
personProxyGet(obj, prop) ==
    Outcome(obj, "The value of " \o prop \o " is " \o ToString(Get(obj, prop)),
            Get(obj, prop), NoError)

\* A personProxySet that applies the age rule of personProxyValidation.
personProxySetNumericAgeOnly(obj, prop, value) ==
    IF prop = "age" /\ TypeOf(value) # "number"
    THEN Outcome(obj, NoLog, Undefined, AgeError)
    ELSE Outcome(Put(obj, prop, value),
                 "Changed " \o prop \o " from " \o ToString(Get(obj, prop)) \o " to "
                     \o ToString(value),
                 Undefined, NoError)

personProxySet(obj, prop, value) ==
    Outcome(Put(obj, prop, value),
            "Changed " \o prop \o " from " \o ToString(Get(obj, prop)) \o " to " \o ToString(value),
            Undefined, NoError)

\* personProxyValidationGet without the missing-property branch.
personProxyValidationGetNoAdvisory(obj, prop) ==
    Outcome(obj, "The value of " \o prop \o " is " \o ToString(Get(obj, prop)),
            Undefined, NoError)

personProxyValidationGet(obj, prop) ==
    IF ~ToBoolean(Get(obj, prop))
    THEN Outcome(obj, MissingAdvisory, Undefined, NoError)
    ELSE Outcome(obj, "The value of " \o prop \o " is " \o ToString(Get(obj, prop)),
                 Undefined, NoError)

\* personProxyValidationSet logging its two messages instead of throwing them.
personProxyValidationSetLogsOnly(obj, prop, value) ==
    IF prop = "age" /\ TypeOf(value) # "number"
    THEN Outcome(obj, AgeError, Undefined, NoError)
    ELSE IF prop = "name" /\ value.k = "undefined"
    THEN Outcome(obj, NoLog, Undefined, LengthTypeError)
    ELSE IF prop = "name" /\ LessThan(LengthOf(value), 2)
    THEN Outcome(obj, NameError, Undefined, NoError)
    ELSE Outcome(Put(obj, prop, value),
                 "Changed " \o prop \o " from " \o ToString(Get(obj, prop)) \o " to "
                     \o ToString(value) \o ".",
                 Undefined, NoError)

\* personProxyValidationSet rejecting only the names of length 0.
personProxyValidationSetEmptyNameOnly(obj, prop, value) ==
    IF prop = "age" /\ TypeOf(value) # "number"
    THEN Outcome(obj, NoLog, Undefined, AgeError)
    ELSE IF prop = "name" /\ value.k = "undefined"
    THEN Outcome(obj, NoLog, Undefined, LengthTypeError)
    ELSE IF prop = "name" /\ LessThan(LengthOf(value), 1)
    THEN Outcome(obj, NoLog, Undefined, NameError)
    ELSE Outcome(Put(obj, prop, value),
                 "Changed " \o prop \o " from " \o ToString(Get(obj, prop)) \o " to "
                     \o ToString(value) \o ".",
                 Undefined, NoError)

\* personProxyValidationSet checking the type of the age only.
personProxyValidationSetAgeOnly(obj, prop, value) ==
    IF prop = "age" /\ TypeOf(value) # "number"
    THEN Outcome(obj, NoLog, Undefined, AgeError)
    ELSE Outcome(Put(obj, prop, value),
                 "Changed " \o prop \o " from " \o ToString(Get(obj, prop)) \o " to "
                     \o ToString(value) \o ".",
                 Undefined, NoError)

personProxyValidationSet(obj, prop, value) ==
    IF prop = "age" /\ TypeOf(value) # "number"
    THEN Outcome(obj, NoLog, Undefined, AgeError)
    ELSE IF prop = "name" /\ value.k = "undefined"
    THEN Outcome(obj, NoLog, Undefined, LengthTypeError)
    ELSE IF prop = "name" /\ LessThan(LengthOf(value), 2)
    THEN Outcome(obj, NoLog, Undefined, NameError)
    ELSE Outcome(Put(obj, prop, value),
                 "Changed " \o prop \o " from " \o ToString(Get(obj, prop)) \o " to "
                     \o ToString(value) \o ".",
                 Undefined, NoError)

\* personProxyReflectGet logging the value without returning it.
personProxyReflectGetNoReturn(obj, prop) ==
    Outcome(obj, "The value of " \o prop \o " is " \o ToString(ReflectGet(obj, prop)),
            Undefined, NoError)

personProxyReflectGet(obj, prop) ==
    Outcome(obj, "The value of " \o prop \o " is " \o ToString(ReflectGet(obj, prop)),
            ReflectGet(obj, prop), NoError)

personProxyReflectSet(obj, prop, value) ==
    Outcome(ReflectSet(obj, prop, value),
            "Changed " \o prop \o " from " \o ToString(Get(obj, prop)) \o " to " \o ToString(value),
            Undefined, NoError)

GetTrap(via, obj, prop) ==
    CASE via = "personProxy" -> personProxyGet(obj, prop)
      [] via = "personProxyValidation" -> personProxyValidationGet(obj, prop)
      [] via = "personProxyReflect" -> personProxyReflectGet(obj, prop)

SetTrap(via, obj, prop, value) ==
    CASE via = "personProxy" -> personProxySet(obj, prop, value)
      [] via = "personProxyValidation" -> personProxyValidationSet(obj, prop, value)
      [] via = "personProxyReflect" -> personProxyReflectSet(obj, prop, value)

\* proxy[prop] = value in the caller: the proxy runs the set trap; an error the
\* trap throws reaches the caller, and so does a TypeError when the trap
\* returns a falsy value and the assignment is strict-mode code (every ES
\* module is).
ProxyAssignError(out, strict) ==
    IF out.thrown # NoError THEN out.thrown
    ELSE IF ~ToBoolean(out.ret) /\ strict THEN FalsishTypeError
    ELSE NoError

(***************************************************************************)
(* The operations on the proxies                                           *)
(***************************************************************************)
callInit ==
    [op |-> "init", via |-> "none", prop |-> "none", value |-> Undefined,
     strict |-> FALSE, ret |-> Undefined, err |-> NoError, log |-> NoLog]

\* proxy[prop]
ReadVia(via) ==
    \E prop \in Props :
        LET out == GetTrap(via, person, prop) IN
        /\ person' = out.obj
        /\ call' = [op |-> "get", via |-> via, prop |-> prop, value |-> Undefined,
                    strict |-> FALSE, ret |-> out.ret, err |-> out.thrown, log |-> out.log]
        /\ UNCHANGED <<registryVars, listingVars, observerVars, commandVars>>

\* proxy[prop] = value
WriteVia(via) ==
    \E input \in WriteInputs, strict \in BOOLEAN :
        LET prop == input[1]
            value == input[2]
            out == SetTrap(via, person, prop, value) IN
        /\ person' = out.obj
        /\ call' = [op |-> "set", via |-> via, prop |-> prop, value |-> value,
                    strict |-> strict, ret |-> Undefined,
                    err |-> ProxyAssignError(out, strict), log |-> out.log]
        /\ UNCHANGED <<registryVars, listingVars, observerVars, commandVars>>

Read == \E via \in Proxies : ReadVia(via)

Write == \E via \in Proxies : WriteVia(via)

ValidationRead == ReadVia("personProxyValidation")

ValidationWrite == WriteVia("personProxyValidation")

(***************************************************************************)
(* The Singleton Counter (singleton.mjs is known through its test and the  *)
(* createOnce() contract only)                                             *)
(***************************************************************************)
\* The most `new Counter()` expressions evaluated in a run.
MaxNew == 3

\* The most copies added to bookList in a run.
MaxCopies == 5

NoInstance == 0

AlreadyInitialized == "You can only create one instance!"

\* The Counter constructor without the guard: the newest object becomes the
\* instance.
CounterConstructorUnguarded(inst, this) == [instance |-> this, thrown |-> NoError]

\* The Counter constructor on the fresh object `this`, with the module's
\* `instance` as it is: the instance afterwards and the error thrown.
CounterConstructor(inst, this) ==
    IF inst # NoInstance
    THEN [instance |-> inst, thrown |-> AlreadyInitialized]
    ELSE [instance |-> this, thrown |-> NoError]

\* new Counter()
NewCounter ==
    /\ counters < MaxNew
    /\ LET this == counters + 1
           out == CounterConstructor(instance, this) IN
       /\ counters' = this
       /\ instance' = out.instance
       /\ registryCall' = [op |-> "new Counter", title |-> "", isbn |-> "",
                           ret |-> IF out.thrown = NoError THEN this ELSE 0,
                           err |-> out.thrown]
    /\ UNCHANGED <<books, bookObjs, bookList>>
    /\ UNCHANGED <<proxyVars, listingVars, observerVars, commandVars>>

(***************************************************************************)
(* The Flyweight book registry (Map-based createBook, addBook)             *)
(***************************************************************************)
Isbns == {"AB123", "CD345", "EF567"}

Titles == {"Harry Potter", "To Kill a Mockingbird"}

Authors == {"JK Rowling"}

\* new Book(title, author, isbn)
Book(title, author, isbn) == [title |-> title, author |-> author, isbn |-> isbn]

\* books.has(isbn)
MapHas(map, isbn) == isbn \in DOMAIN map

\* books.set(isbn, book)
MapSet(map, isbn, book) ==
    [key \in DOMAIN map \cup {isbn} |-> IF key = isbn THEN book ELSE map[key]]

\* createBook without the lookup: a new Book on every call.
createBookNoLookup(map, objs, title, author, isbn) ==
    [books |-> MapSet(map, isbn, Len(objs) + 1),
     bookObjs |-> Append(objs, Book(title, author, isbn)),
     ret |-> Len(objs) + 1]

\* createBook that never records the Book it creates.
createBookNoStore(map, objs, title, author, isbn) ==
    IF MapHas(map, isbn)
    THEN [books |-> map, bookObjs |-> objs, ret |-> map[isbn]]
    ELSE [books |-> map,
          bookObjs |-> Append(objs, Book(title, author, isbn)),
          ret |-> Len(objs) + 1]

\* createBook(title, author, isbn) on the Map `map` and the Book instances
\* `objs` constructed so far: the Map and the instances afterwards, and the
\* instance returned (its place in objs).
createBook(map, objs, title, author, isbn) ==
    IF MapHas(map, isbn)
    THEN [books |-> map, bookObjs |-> objs, ret |-> map[isbn]]
    ELSE [books |-> MapSet(map, isbn, Len(objs) + 1),
          bookObjs |-> Append(objs, Book(title, author, isbn)),
          ret |-> Len(objs) + 1]

\* { ...book, sales, availability, isbn }
Copy(book, sales, availability, isbn) ==
    [title |-> book.title, author |-> book.author, isbn |-> isbn,
     sales |-> sales, availability |-> availability]

\* addBook putting the copy at the front of the list (unshift for push).
addBookUnshift(map, objs, list, title, author, isbn, availability, sales) ==
    LET created == createBook(map, objs, title, author, isbn)
        book == Copy(created.bookObjs[created.ret], sales, availability, isbn)
    IN  [books |-> created.books, bookObjs |-> created.bookObjs,
         bookList |-> <<book>> \o list, ret |-> book]

\* addBook(title, author, isbn, availability, sales)
addBook(map, objs, list, title, author, isbn, availability, sales) ==
    LET created == createBook(map, objs, title, author, isbn)
        book == Copy(created.bookObjs[created.ret], sales, availability, isbn)
    IN  [books |-> created.books, bookObjs |-> created.bookObjs,
         bookList |-> Append(list, book), ret |-> book]

CreateBookCall ==
    \E title \in Titles, author \in Authors, isbn \in Isbns :
        LET out == createBook(books, bookObjs, title, author, isbn) IN
        /\ books' = out.books
        /\ bookObjs' = out.bookObjs
        /\ registryCall' = [op |-> "createBook", title |-> title, isbn |-> isbn,
                            ret |-> out.ret, err |-> NoError]
        /\ UNCHANGED <<instance, counters, bookList>>
        /\ UNCHANGED <<proxyVars, listingVars, observerVars, commandVars>>

AddBookCall ==
    /\ Len(bookList) < MaxCopies
    /\ \E title \in Titles, author \in Authors, isbn \in Isbns,
          availability \in {TRUE}, sales \in {100} :
        LET out == addBook(books, bookObjs, bookList, title, author, isbn,
                           availability, sales) IN
        /\ books' = out.books
        /\ bookObjs' = out.bookObjs
        /\ bookList' = out.bookList
        /\ registryCall' = [op |-> "addBook", title |-> title, isbn |-> isbn,
                            ret |-> Len(out.bookList), err |-> NoError]
        /\ UNCHANGED <<instance, counters>>
        /\ UNCHANGED <<proxyVars, listingVars, observerVars, commandVars>>

(***************************************************************************)
(* The Flyweight README's complete listing (Set-based createBook)          *)
(***************************************************************************)
\* What createBook returns: a Book instance (its place in bookObjs) or the
\* boolean true.
BookInstance(i) == [k |-> "Book", ref |-> i]

True == [k |-> "boolean", ref |-> 1]

\* The own enumerable properties { ...v } copies: those of a Book instance,
\* none of a boolean.
Spread(v, objs) == IF v.k = "Book" THEN objs[v.ref] ELSE <<>>

\* { ...a, ...b }: the properties of a, overridden and extended by those of b.
ObjectLiteral(a, b) ==
    [p \in DOMAIN a \cup DOMAIN b |-> IF p \in DOMAIN b THEN b[p] ELSE a[p]]

\* The listing's createBook(title, author, isbn) on the Set `set` and the Book
\* instances `objs` constructed so far: `book` is isbnNumbers.has(isbn), a
\* boolean, and it is what the function returns when it is true.
createBookListing(set, objs, title, author, isbn) ==
    IF isbn \in set
    THEN [isbnNumbers |-> set, bookObjs |-> objs, ret |-> True]
    ELSE [isbnNumbers |-> set \cup {isbn},
          bookObjs |-> Append(objs, Book(title, author, isbn)),
          ret |-> BookInstance(Len(objs) + 1)]

\* The listing's addBook(title, author, isbn, availibility, sales)
addBookListing(set, objs, list, title, author, isbn, availibility, sales) ==
    LET created == createBookListing(set, objs, title, author, isbn)
        book == ObjectLiteral(Spread(created.ret, created.bookObjs),
                              [sales |-> sales, availibility |-> availibility,
                               isbn |-> isbn])
    IN  [isbnNumbers |-> created.isbnNumbers, bookObjs |-> created.bookObjs,
         bookList |-> Append(list, book), ret |-> book]

AddBookListingCall ==
    /\ Len(bookList) < MaxCopies
    /\ \E title \in Titles, author \in Authors, isbn \in Isbns,
          availibility \in {TRUE}, sales \in {100} :
        LET out == addBookListing(isbnNumbers, bookObjs, bookList, title, author, isbn,
                                  availibility, sales) IN
        /\ isbnNumbers' = out.isbnNumbers
        /\ bookObjs' = out.bookObjs
        /\ bookList' = out.bookList
        /\ registryCall' = [op |-> "addBook", title |-> title, isbn |-> isbn,
                            ret |-> Len(out.bookList), err |-> NoError]
        /\ UNCHANGED <<instance, counters, books>>
        /\ UNCHANGED <<proxyVars, observerVars, commandVars>>

registryCallInit == [op |-> "init", title |-> "", isbn |-> "", ret |-> 0, err |-> NoError]

(***************************************************************************)
(* The Observer README's Observable                                        *)
(***************************************************************************)
\* The most observers subscribed by callers in a run.
MaxObservers == 3

\* The functions callers subscribe: the README's logger and toastify, one that
\* throws, one that subscribes logger to the observable it is called by and
\* one that unsubscribes toastify from it.
Funcs == {"logger", "toastify", "failing", "subscribing", "unsubscribing"}

Payloads == {"User clicked button!", "User toggled switch!"}

ObserverError == "Error thrown by an observer"

\* The elements of an array.
Elements(array) == {array[i] : i \in DOMAIN array}

\* subscribe(func) adding func only when the list does not hold it.
subscribeIfAbsent(obs, func) == IF func \in Elements(obs) THEN obs ELSE Append(obs, func)

\* subscribe(func): this.observers.push(func)
subscribe(obs, func) == Append(obs, func)

\* unsubscribe(func) removing the first occurrence only
\* (splice(indexOf(func), 1)).
unsubscribeFirst(obs, func) ==
    IF func \notin Elements(obs) THEN obs
    ELSE LET first == CHOOSE i \in DOMAIN obs :
                          obs[i] = func /\ \A j \in 1..(i - 1) : obs[j] # func
         IN  SubSeq(obs, 1, first - 1) \o SubSeq(obs, first + 1, Len(obs))

\* unsubscribe(func): this.observers = this.observers.filter(observer => observer !== func)
unsubscribe(obs, func) == SelectSeq(obs, LAMBDA observer : observer # func)

\* observer(data), during a notify. The dispatch st holds the array forEach
\* walks (array), this.observers (observers), whether the two are still the
\* same array object (same), the calls made so far (invoked) and the error
\* thrown (thrown). push changes the array object this.observers names; filter
\* makes this.observers a new array.
Invoke(st, observer, data) ==
    LET called == [st EXCEPT !.invoked = Append(@, [func |-> observer, data |-> data])] IN
    CASE observer = "failing" -> [called EXCEPT !.thrown = ObserverError]
      [] observer = "subscribing" ->
            [called EXCEPT !.observers = subscribe(@, "logger"),
                           !.array = IF st.same THEN subscribe(@, "logger") ELSE @]
      [] observer = "unsubscribing" ->
            [called EXCEPT !.observers = unsubscribe(@, "toastify"), !.same = FALSE]
      [] OTHER -> called

\* Array.prototype.forEach from element k: the elements 1..len, len being the
\* length when forEach was called; an error thrown by the callback ends it.
RECURSIVE ForEach(_, _, _, _)
ForEach(st, k, len, data) ==
    IF k > len \/ st.thrown # NoError THEN st
    ELSE ForEach(Invoke(st, st.array[k], data), k + 1, len, data)

\* notify(data): this.observers.forEach(observer => observer(data))
notify(obs, data) ==
    ForEach([array |-> obs, observers |-> obs, same |-> TRUE, invoked |-> <<>>,
             thrown |-> NoError], 1, Len(obs), data)

Subscribe ==
    /\ Len(observers) < MaxObservers
    /\ \E func \in Funcs :
        /\ observers' = subscribe(observers, func)
        /\ observerCall' = [op |-> "subscribe", func |-> func, data |-> "",
                            invoked |-> <<>>, err |-> NoError]
    /\ UNCHANGED <<proxyVars, registryVars, listingVars, commandVars>>

Unsubscribe ==
    /\ \E func \in Funcs :
        /\ observers' = unsubscribe(observers, func)
        /\ observerCall' = [op |-> "unsubscribe", func |-> func, data |-> "",
                            invoked |-> <<>>, err |-> NoError]
    /\ UNCHANGED <<proxyVars, registryVars, listingVars, commandVars>>

\* notify is called while the list is within the bound, so that a subscribing
\* observer cannot grow it without end.
Notify ==
    /\ Len(observers) <= MaxObservers
    /\ \E data \in Payloads :
        LET out == notify(observers, data) IN
        /\ observers' = out.observers
        /\ observerCall' = [op |-> "notify", func |-> "", data |-> data,
                            invoked |-> out.invoked, err |-> out.thrown]
    /\ UNCHANGED <<proxyVars, registryVars, listingVars, commandVars>>

\* ---------------------------------------------------------------------
\* Command: the order manager with direct methods and the one that
\* executes commands.  Both start with orders = [] and are driven by the
\* same calls, so that their lists and messages can be compared.
\* ---------------------------------------------------------------------

MaxOrders == 4

\* The calls of the listings: manager.placeOrder("Pad Thai", "1234").
OrderNames == {"Pad Thai", "Pizza"}
OrderIds == {Str("1234"), Str("5678")}

\* order.id: the ids pushed on the list are string primitives, and a string
\* has no property id, so the property read yields undefined.
GetId(order) == IF order.k = "string" THEN Undefined ELSE Absent

PlacedMessage(order, id) ==
    "You have successfully ordered " \o order \o " (" \o ToString(id) \o ")"

TrackMessage(id) == "Your order " \o ToString(id) \o " will arrive in 20 minutes."

CanceledMessage(id) == "You have canceled your order " \o ToString(id)

\* placeOrder(order, id): this.orders.push(id); return the message.
placeOrder(ords, order, id) ==
    [orders |-> Append(ords, id), ret |-> PlacedMessage(order, id)]

\* trackOrder(id): return the message.
trackOrder(ords, id) == [orders |-> ords, ret |-> TrackMessage(id)]

\* A cancelOrder comparing the element itself with the id.
cancelOrderByValue(ords, id) ==
    [orders |-> SelectSeq(ords, LAMBDA order : order # id),
     ret |-> CanceledMessage(id)]

\* cancelOrder(id): this.orders = this.orders.filter(order => order.id !== id).
cancelOrder(ords, id) ==
    [orders |-> SelectSeq(ords, LAMBDA order : GetId(order) # id),
     ret |-> CanceledMessage(id)]

\* new Command(execute): the command keeps the function it was built with;
\* the function is named by the factory and holds the factory's arguments.
Command(name, order, id) == [name |-> name, order |-> order, id |-> id]

PlaceOrderCommand(order, id) == Command("PlaceOrderCommand", order, id)

CancelOrderCommand(id) == Command("CancelOrderCommand", "", id)

TrackOrderCommand(id) == Command("TrackOrderCommand", "", id)

\* orders => { orders.push(id); return ... }: push changes the array passed.
PlaceOrderExecute(ords, order, id) ==
    [orders |-> Append(ords, id), ret |-> PlacedMessage(order, id)]

\* orders => { orders = orders.filter(...); return ... }: the filtered array
\* is bound to the parameter only; the array passed is not changed.
CancelOrderExecute(ords, id) ==
    LET local == SelectSeq(ords, LAMBDA order : GetId(order) # id)
    IN  [orders |-> ords, ret |-> CanceledMessage(id)]

\* () => `Your order ${id} will arrive in 20 minutes.`
TrackOrderExecute(ords, id) == [orders |-> ords, ret |-> TrackMessage(id)]

\* execute(command, ...args): return command.execute(this.orders, ...args).
execute(ords, command) ==
    CASE command.name = "PlaceOrderCommand" ->
             PlaceOrderExecute(ords, command.order, command.id)
      [] command.name = "CancelOrderCommand" -> CancelOrderExecute(ords, command.id)
      [] command.name = "TrackOrderCommand" -> TrackOrderExecute(ords, command.id)

\* The same call made on both managers.
OrderStep(op, order, id, direct, command) ==
    /\ orders' = direct.orders
    /\ commandOrders' = command.orders
    /\ orderCall' = [op |-> op, order |-> order, id |-> id.s,
                     ret |-> direct.ret, commandRet |-> command.ret]
    /\ UNCHANGED <<proxyVars, registryVars, listingVars, observerVars>>

PlaceOrder ==
    /\ Len(orders) < MaxOrders
    /\ \E order \in OrderNames, id \in OrderIds :
        OrderStep("place", order, id, placeOrder(orders, order, id),
                  execute(commandOrders, PlaceOrderCommand(order, id)))

TrackOrder ==
    \E id \in OrderIds :
        OrderStep("track", "", id, trackOrder(orders, id),
                  execute(commandOrders, TrackOrderCommand(id)))

CancelOrder ==
    \E id \in OrderIds :
        OrderStep("cancel", "", id, cancelOrder(orders, id),
                  execute(commandOrders, CancelOrderCommand(id)))

observerCallInit == [op |-> "init", func |-> "", data |-> "", invoked |-> <<>>, err |-> NoError]

orderCallInit == [op |-> "init", order |-> "", id |-> "", ret |-> "", commandRet |-> ""]

Init ==
    /\ person = personInit
    /\ call = callInit
    /\ instance = NoInstance
    /\ counters = 0
    /\ books = <<>>
    /\ bookObjs = <<>>
    /\ bookList = <<>>
    /\ registryCall = registryCallInit
    /\ isbnNumbers = {}
    /\ observers = <<>>
    /\ observerCall = observerCallInit
    /\ orders = <<>>
    /\ commandOrders = <<>>
    /\ orderCall = orderCallInit

Next == Read \/ Write

Spec == Init /\ [][Next]_vars

\* The person record used through personProxyValidation only.
NextValidation == ValidationRead \/ ValidationWrite

SpecValidation == Init /\ [][NextValidation]_vars

\* The identity registry: the keyed createBook and the create-once Counter.
NextRegistry == NewCounter \/ CreateBookCall

SpecRegistry == Init /\ [][NextRegistry]_vars

\* The library filled through addBook only.
NextAddBook == AddBookCall

SpecAddBook == Init /\ [][NextAddBook]_vars

\* The library of the complete listing, filled through its addBook.
NextListing == AddBookListingCall

SpecListing == Init /\ [][NextListing]_vars

\* The observable with its subscribers.
NextObserver == Subscribe \/ Unsubscribe \/ Notify

SpecObserver == Init /\ [][NextObserver]_vars

\* The two order managers driven by the same calls.
NextCommand == PlaceOrder \/ TrackOrder \/ CancelOrder

SpecCommand == Init /\ [][NextCommand]_vars

TypeOK ==
    /\ person \in [Props -> Values \cup {Absent, Num(42), Str("John Doe"), Str("American")}]
    /\ call.op \in {"init", "get", "set"}

(***************************************************************************)
(* The proxies: properties                                                 *)
(***************************************************************************)
\* The value stored in the record for a property (undefined when it has none).
Stored(prop) == IF person[prop] = Absent THEN Undefined ELSE person[prop]

ValidationSetOf(prop) ==
    call.op = "set" /\ call.via = "personProxyValidation" /\ call.prop = prop

\* C1: a write through personProxyValidation of a value whose type is not
\* number to 'age' fails with 'Sorry, you can only pass numeric values for
\* age.' and leaves person.age as it was.
C1_NonNumericAgeRejected ==
    [][(ValidationSetOf("age")' /\ TypeOf(call'.value) # "number")
          => (call'.err = AgeError /\ person'["age"] = person["age"])]_vars

\* The write of the string '43' to age was rejected and the age is still 42.
C1_Witness ==
    /\ ValidationSetOf("age")
    /\ call.value = Str("43")
    /\ call.err = AgeError
    /\ person["age"] = Num(42)

\* C2: a write through personProxyValidation of a value that has a length
\* less than 2 to 'name' fails with 'You need to provide a valid name.' and
\* leaves person.name as it was.
C2_ShortNameRejected ==
    [][(ValidationSetOf("name")' /\ call'.value.k \in {"string", "array"}
            /\ LengthOf(call'.value).n < 2)
          => (call'.err = NameError /\ person'["name"] = person["name"])]_vars

\* The write of a one-character name was rejected and the name is unchanged.
C2_Witness ==
    /\ ValidationSetOf("name")
    /\ call.value = Str("J")
    /\ call.err = NameError
    /\ person["name"] = Str("John Doe")

\* The writes that pass validation: every write through personProxy or
\* personProxyReflect; through personProxyValidation a numeric age, a name of
\* length at least 2, or any other property.
PassesValidation(via, prop, value) ==
    \/ via \in {"personProxy", "personProxyReflect"}
    \/ /\ via = "personProxyValidation"
       /\ \/ prop = "age" /\ TypeOf(value) = "number"
          \/ prop = "name" /\ value.k \in {"string", "array"} /\ LengthOf(value).n >= 2
          \/ prop \notin {"age", "name"}

\* C3: a write that passes validation commits the value to exactly that one
\* property of the record and completes without an error to the caller.
C3_ValidWriteCommitsWithoutError ==
    [][(call'.op = "set" /\ PassesValidation(call'.via, call'.prop, call'.value))
          => (/\ call'.err = NoError
              /\ person' = [person EXCEPT ![call'.prop] = call'.value])]_vars

\* C4: reading a property through personProxy and through personProxyReflect
\* returns the value the record stores for it, so the two agree; the initial
\* record reads name as 'John Doe'.
C4_ReadsReturnStoredValue ==
    /\ \A prop \in Props :
          /\ personProxyGet(person, prop).ret = Stored(prop)
          /\ personProxyReflectGet(person, prop).ret = Stored(prop)
    /\ (call.op = "get" /\ call.via \in {"personProxy", "personProxyReflect"})
          => (call.ret = Stored(call.prop) /\ call.err = NoError)
    /\ (call.op = "get" /\ call.via \in {"personProxy", "personProxyReflect"}
            /\ call.prop = "name" /\ person = personInit)
          => call.ret = Str("John Doe")

\* A read of name through personProxyReflect returned a name that a write
\* stored earlier.
C4_Witness ==
    /\ call.op = "get"
    /\ call.via = "personProxyReflect"
    /\ call.prop = "name"
    /\ call.ret = Str("Jo")
    /\ person["name"] = Str("Jo")

\* C5: whatever writes are issued through personProxyValidation, person.age
\* has type number and person.name has no length less than 2.
C5_NoFaultyValue ==
    /\ TypeOf(Stored("age")) = "number"
    /\ ~LessThan(LengthOf(Stored("name")), 2)

\* After accepted and rejected writes: the name replaced by a two-character
\* one, the age replaced by 0, and the last write a rejected empty name.
C5_Witness ==
    /\ person["name"] = Str("Jo")
    /\ person["age"] = Num(0)
    /\ ValidationSetOf("name")
    /\ call.value = Str("")
    /\ call.err = NameError

\* C6: a read through personProxyValidation of a property the record does not
\* have logs the missing-property advisory, returns undefined, throws nothing
\* and leaves the record unchanged.
C6_MissingPropertyAdvisory ==
    [][(call'.op = "get" /\ call'.via = "personProxyValidation"
            /\ person[call'.prop] = Absent)
          => (/\ call'.log = MissingAdvisory
              /\ call'.ret = Undefined
              /\ call'.err = NoError
              /\ person' = person)]_vars

\* nonExistentProperty was read through personProxyValidation while absent.
C6_Witness ==
    /\ call.op = "get"
    /\ call.via = "personProxyValidation"
    /\ call.prop = "nonExistentProperty"
    /\ person["nonExistentProperty"] = Absent
    /\ call.log = MissingAdvisory

\* C17: a read through personProxyValidation logs the missing-property
\* advisory exactly when the record does not have the property; a property the
\* record has, a numeric age of 0 included, is logged with its value.
C17_AdvisoryIffAbsent ==
    [][(call'.op = "get" /\ call'.via = "personProxyValidation")
          => /\ (call'.log = MissingAdvisory) <=> (person[call'.prop] = Absent)
             /\ person[call'.prop] # Absent
                  => call'.log = "The value of " \o call'.prop \o " is "
                                     \o ToString(person[call'.prop])]_vars

Unvalidated == {"personProxy", "personProxyReflect"}

\* C19: the three proxies work on the one person record: a value a write
\* through any of them has committed is what the next read of that property
\* through personProxy or personProxyReflect returns, and a write through
\* personProxy or personProxyReflect stores its value whatever it is, never
\* failing with the age or name rule.
C19_SharedRecordUnvalidatedWrites ==
    [][/\ (call'.op = "set" /\ person'[call'.prop] = call'.value)
            => /\ personProxyGet(person', call'.prop).ret = call'.value
               /\ personProxyReflectGet(person', call'.prop).ret = call'.value
       /\ (call.op = "set" /\ person[call.prop] = call.value
              /\ call'.op = "get" /\ call'.via \in Unvalidated /\ call'.prop = call.prop)
            => call'.ret = call.value
       /\ (call'.op = "set" /\ call'.via \in Unvalidated)
            => /\ person' = [person EXCEPT ![call'.prop] = call'.value]
               /\ call'.err \notin {AgeError, NameError, LengthTypeError}]_vars

\* The string '43', which only personProxy or personProxyReflect can store as
\* the age, is on the record and a read through personProxyReflect returned it.
C19_Witness ==
    /\ call.op = "get"
    /\ call.via = "personProxyReflect"
    /\ call.prop = "age"
    /\ call.ret = Str("43")
    /\ person["age"] = Str("43")
    /\ TypeOf(person["age"]) # "number"

(***************************************************************************)
(* The identity registry: properties                                       *)
(***************************************************************************)
\* C7: the first new Counter() succeeds and takes the state from
\* Uninitialized to Initialized; the state never goes back, and every later
\* new Counter() fails with 'You can only create one instance!' and leaves
\* the original instance in place.
C7_CreateOnce ==
    [][/\ instance # NoInstance => instance' = instance
       /\ (registryCall'.op = "new Counter" /\ counters' # counters)
             => IF instance = NoInstance
                THEN /\ registryCall'.err = NoError
                     /\ instance' = registryCall'.ret
                     /\ instance' # NoInstance
                ELSE /\ registryCall'.err = AlreadyInitialized
                     /\ registryCall'.ret = 0]_vars

\* A third new Counter() has failed and the first object is still the instance.
C7_Witness ==
    /\ registryCall.op = "new Counter"
    /\ registryCall.err = AlreadyInitialized
    /\ counters = 3
    /\ instance = 1

\* The Book instances constructed for an ISBN.
InstancesOf(isbn) == {i \in DOMAIN bookObjs : bookObjs[i].isbn = isbn}

\* C8: createBook returns the Book instance the Map holds for the ISBN, the
\* same one on every call with that ISBN and without constructing another,
\* and at most one Book is ever constructed for an ISBN.
C8_SameInstancePerIsbn ==
    /\ [](\A isbn \in Isbns : Cardinality(InstancesOf(isbn)) <= 1)
    /\ [][registryCall'.op = "createBook"
            => /\ registryCall'.ret = books'[registryCall'.isbn]
               /\ MapHas(books, registryCall'.isbn)
                     => /\ registryCall'.ret = books[registryCall'.isbn]
                        /\ bookObjs' = bookObjs]_vars

\* createBook was called for 'AB123' again, with another title, and returned
\* the instance constructed by the first call.
C8_Witness ==
    /\ registryCall.op = "createBook"
    /\ registryCall.isbn = "AB123"
    /\ Len(bookObjs) = 1
    /\ registryCall.ret = 1
    /\ bookObjs[1].title # registryCall.title

\* C9: the registry never replaces or removes a mapping: a createBook call
\* with a key that is present leaves the Map unchanged, a call with a new key
\* adds exactly that one entry, and every entry is a Book of its key.
C9_MappingNeverReplaced ==
    /\ [](\A isbn \in DOMAIN books :
             books[isbn] \in DOMAIN bookObjs /\ bookObjs[books[isbn]].isbn = isbn)
    /\ [][/\ \A isbn \in DOMAIN books :
                isbn \in DOMAIN books' /\ books'[isbn] = books[isbn]
          /\ registryCall'.op = "createBook"
                => IF MapHas(books, registryCall'.isbn)
                   THEN books' = books
                   ELSE /\ DOMAIN books' = DOMAIN books \cup {registryCall'.isbn}
                        /\ Cardinality(DOMAIN books') = Cardinality(DOMAIN books) + 1]_vars

\* All three ISBNs are registered and the last call was for the first one
\* registered.
C9_Witness ==
    /\ DOMAIN books = Isbns
    /\ registryCall.op = "createBook"
    /\ registryCall.ret = 1
    /\ Len(bookObjs) = 3

\* The ISBNs of the copies in bookList.
IsbnsAdded == {bookList[i].isbn : i \in DOMAIN bookList}

\* C10: every addBook call appends exactly one copy, for the ISBN passed, to
\* the end of bookList, and the number of Book instances constructed is the
\* number of distinct ISBNs passed.
C10_CopiesAndInstances ==
    /\ [](Len(bookObjs) = Cardinality(IsbnsAdded))
    /\ [][registryCall'.op = "addBook"
            => /\ Len(bookList') = Len(bookList) + 1
               /\ SubSeq(bookList', 1, Len(bookList)) = bookList
               /\ bookList'[Len(bookList')].isbn = registryCall'.isbn
               /\ registryCall'.ret = Len(bookList')]_vars

\* The README's five addBook calls: 5 copies, 3 Book instances.
C10_Witness ==
    /\ Len(bookList) = 5
    /\ Len(bookObjs) = 3
    /\ [i \in 1..5 |-> bookList[i].isbn] = <<"AB123", "AB123", "CD345", "CD345", "EF567">>

(***************************************************************************)
(* The complete Flyweight listing: properties                              *)
(***************************************************************************)
\* C11: in the complete listing createBook returns a Book instance, new or
\* existing, so every copy in bookList has the title, author and isbn of its
\* book, the second and later copies of an ISBN included.
C11_EveryCopyCarriesItsBook ==
    \A i \in DOMAIN bookList :
        /\ {"title", "author", "isbn"} \subseteq DOMAIN bookList[i]
        /\ \E b \in DOMAIN bookObjs :
              /\ bookObjs[b].isbn = bookList[i].isbn
              /\ bookObjs[b].title = bookList[i].title
              /\ bookObjs[b].author = bookList[i].author

(***************************************************************************)
(* The Observable: properties                                              *)
(***************************************************************************)
\* The calls a notify(data) makes when it invokes every observer of the list
\* obs once per subscription, in subscription order, with data.
CallsOf(obs, data) == [i \in DOMAIN obs |-> [func |-> obs[i], data |-> data]]

\* How often func is called in a sequence of calls.
TimesInvoked(invoked, func) == Cardinality({i \in DOMAIN invoked : invoked[i].func = func})

\* How often func occurs in the list obs.
Occurrences(obs, func) == Cardinality({i \in DOMAIN obs : obs[i] = func})

\* C12: notify(payload) invokes every observer subscribed when it is called,
\* in subscription order, each with exactly the payload, and no other function.
C12_NotifyInvokesAllInOrder ==
    [][observerCall'.op = "notify"
          => observerCall'.invoked = CallsOf(observers, observerCall'.data)]_vars

\* C13: unsubscribe(f) removes every occurrence of f and nothing else, keeping
\* the order of the others (so it changes nothing when f is not subscribed);
\* a notify invokes only functions that are subscribed when it is called, and
\* a function enters the list only by being subscribed.
C13_UnsubscribedNotInvoked ==
    [][/\ observerCall'.op = "unsubscribe"
            => /\ observerCall'.func \notin Elements(observers')
               /\ observers' = SelectSeq(observers, LAMBDA o : o # observerCall'.func)
       /\ observerCall'.op = "notify"
            => \A i \in DOMAIN observerCall'.invoked :
                  observerCall'.invoked[i].func \in Elements(observers)
       /\ \A f \in Funcs :
            (f \notin Elements(observers) /\ f \in Elements(observers'))
               => \/ observerCall'.op = "subscribe" /\ observerCall'.func = f
                  \/ /\ observerCall'.op = "notify"
                     /\ f = "logger"
                     /\ TimesInvoked(observerCall'.invoked, "subscribing") > 0]_vars

\* logger, subscribed twice among others, has been unsubscribed: only the
\* other observer is left.
C13_Witness ==
    /\ observerCall.op = "unsubscribe"
    /\ observerCall.func = "logger"
    /\ observers = <<"toastify">>

\* C14 as claimed: subscribe(f) leaves the list unchanged when it holds f
\* already, and a notify invokes no function twice.
C14_SubscribeIsIdempotent ==
    [][/\ observerCall'.op = "subscribe"
            => observers' = IF observerCall'.func \in Elements(observers)
                            THEN observers
                            ELSE Append(observers, observerCall'.func)
       /\ observerCall'.op = "notify"
            => \A f \in Funcs : TimesInvoked(observerCall'.invoked, f) <= 1]_vars

\* C14 amended: subscribe(f) appends f whether or not the list holds it, and a
\* notify invokes the observers of the list one after the other from the first,
\* once per occurrence: a callback subscribed twice is invoked twice by a
\* notify that runs to the end of the list.
C14_SubscribeAppendsAlways ==
    [][/\ observerCall'.op = "subscribe"
            => observers' = Append(observers, observerCall'.func)
       /\ observerCall'.op = "notify"
            => /\ Len(observerCall'.invoked) <= Len(observers)
               /\ \A i \in DOMAIN observerCall'.invoked :
                     observerCall'.invoked[i].func = observers[i]
               /\ Len(observerCall'.invoked) = Len(observers)
                     => \A f \in Funcs :
                           TimesInvoked(observerCall'.invoked, f) = Occurrences(observers, f)]_vars

\* logger was subscribed twice and a notify has invoked it twice.
C14_Witness ==
    /\ observerCall.op = "notify"
    /\ observers = <<"logger", "logger">>
    /\ TimesInvoked(observerCall.invoked, "logger") = 2

\* C15: an observer that throws during notify does not keep the observers
\* after it from being invoked; the error reaches the caller after the last
\* observer has been invoked.
C15_FailureIsolation ==
    [][(observerCall'.op = "notify" /\ "failing" \in Elements(observers))
          => /\ observerCall'.err = ObserverError
             /\ Len(observerCall'.invoked) = Len(observers)]_vars

\* C20: when an observer subscribes or unsubscribes during the dispatch, the
\* notify in progress still invokes exactly the observers subscribed when it
\* was called, in order, and the list shows the change afterwards.
C20_DispatchOnCallTimeList ==
    [][observerCall'.op = "notify"
          => /\ (TimesInvoked(observerCall'.invoked, "subscribing")
                    + TimesInvoked(observerCall'.invoked, "unsubscribing") > 0)
                   => observerCall'.invoked = CallsOf(observers, observerCall'.data)
             /\ TimesInvoked(observerCall'.invoked, "unsubscribing") > 0
                   => "toastify" \notin Elements(observers')
             /\ TimesInvoked(observerCall'.invoked, "subscribing") > 0
                   => observers'[Len(observers')] = "logger"]_vars
\* ---------------------------------------------------------------------
\* Command
\* ---------------------------------------------------------------------

\* C16: after an order has been placed and then cancelled, neither manager's
\* orders list contains its id any more, and the other ids stay as they were.
C16_CancelRemovesOrder ==
    [][(orderCall'.op = "cancel" /\ Str(orderCall'.id) \in Elements(orders)
            /\ <<orders, commandOrders, orderCall>>' # <<orders, commandOrders, orderCall>>)
        => /\ Str(orderCall'.id) \notin Elements(orders')
           /\ Str(orderCall'.id) \notin Elements(commandOrders')
           /\ orders' = SelectSeq(orders, LAMBDA order : order # Str(orderCall'.id))
           /\ commandOrders' =
                  SelectSeq(commandOrders, LAMBDA order : order # Str(orderCall'.id))]_vars

\* C18: driven by the same place, track and cancel calls, the manager with
\* direct methods and the manager executing commands hold equal orders lists
\* after every step and return equal messages.
C18_ManagersEquivalent ==
    /\ orders = commandOrders
    /\ orderCall.ret = orderCall.commandRet

\* A cancel of a placed id, with another id on the list, has been made on both.
C18_Witness ==
    /\ orderCall.op = "cancel"
    /\ Str(orderCall.id) \in Elements(orders)
    /\ \E k \in DOMAIN orders : orders[k] # Str(orderCall.id)
    /\ orderCall.ret = "You have canceled your order " \o orderCall.id

====
